---- MODULE Spec2Model ----
(***************************************************************************)
(* Model of src/python/portfolio_optimizer.py: one run of the command-line *)
(* script, from the parsing of sys.argv to the process exit.               *)
(*                                                                         *)
(* Units.  The script works on floats that it rounds to two decimals; the  *)
(* model uses exact fixed-point integers:                                  *)
(*   - percentages (expected_annual_return, annual_volatility) in          *)
(*     hundredths of a percent, 25.00 % = 2500;                            *)
(*   - sharpe_ratio in hundredths, 1.5 = 150;                              *)
(*   - weights in hundredths, 0.05 = 5, 1.0 = 100;                         *)
(*   - the investment amount in thousandths of a currency unit (a float    *)
(*     argument may carry more than two decimals), 10000 = 10000000;       *)
(*   - rounded money amounts (round(x, 2)) in cents.                       *)
(* A command-line string is a sequence of one-character strings, so that   *)
(* str.split(",") is computed and not assumed.                             *)
(***************************************************************************)
EXTENDS Integers, Sequences, FiniteSets, TLC

VARIABLES
    argv,            \* sys.argv[1:], the arguments after the script name
    pc,              \* position of the run in the script
    command,         \* sys.argv[1] once dispatched ("none" before)
    tickers,         \* the ticker list, sys.argv[2].split(",")
    investment,      \* investment_amount of predict
    data,            \* price table fetched by optimize_portfolio: its set of columns
    recent,          \* price table fetched by predict_portfolio_performance itself
    optimization,    \* return value of optimize_portfolio
    result,          \* the record main is about to print
    stdout,          \* the JSON objects printed so far
    exitCode,        \* process exit status, -1 while running
    traceback,       \* the uncaught exception that ended the run, "none"
    fetchCount,      \* calls of yf.download so far
    fetchFailed,     \* number of the fetch that raised, 0 if none did
    optimizerCalls   \* calls of EfficientFrontier.max_sharpe so far

vars == <<argv, pc, command, tickers, investment, data, recent, optimization, result,
          stdout, exitCode, traceback, fetchCount, fetchFailed, optimizerCalls>>

----------------------------------------------------------------------------
(* Bounds of the model *)

\* longest ticker argument (characters of sys.argv[2])
MaxArgLen == 3

\* characters a ticker argument is made of
Alphabet == {"A", "B", ","}

\* the symbols the market-data provider knows; any other ticker is invalid
Listed == {<<"A">>, <<"B">>}

\* values of round(performance[1] * 100, 2), around both thresholds
Volatilities == {1499, 1500, 1501, 2500, 2501}

\* values of round(performance[2], 2), around both thresholds
Sharpes == {100, 101, 150, 151}

\* values of round(performance[0] * 100, 2): -50 %, 10 %, 12.5 %
Returns == {-5000, 1000, 1250}

\* weights the optimizer may give one asset, around the thresholds
WeightVals == {0, 4, 5, 6, 29, 30, 31, 40, 41, 50, 59, 60, 69, 70, 94, 95, 96, 100}

\* investment-amount arguments: not a number, and 1.004
AmountArgs == { [numeric |-> FALSE, mills |-> 0],
                [numeric |-> TRUE,  mills |-> 1004] }

Commands == {"optimize", "predict", "rebalance"}

----------------------------------------------------------------------------
(* Values *)

NoRecord == [none |-> TRUE]

\* investment_amount=10000 (default of predict_portfolio_performance and of main)
DefaultInvestment == 10000000

NoDataError == [error |-> "No data available for the given tickers"]
NoTickersError == [error |-> "No tickers provided"]
InvalidCommandError == [error |-> "Invalid command. Use 'optimize' or 'predict'"]
FetchError == [error |-> "Failed to fetch data"]

IsError(r) == "error" \in DOMAIN r

RECURSIVE StringsUpTo(_)
StringsUpTo(n) ==
    IF n = 0 THEN { <<>> }
    ELSE LET shorter == StringsUpTo(n - 1)
         IN shorter \cup { Append(s, c) : s \in { t \in shorter : Len(t) = n - 1 }, c \in Alphabet }

TickerArgs == StringsUpTo(MaxArgLen)

Argvs ==
    { <<>> }
    \cup { <<c>> : c \in Commands }
    \cup { <<c, s>> : c \in Commands, s \in TickerArgs }
    \cup { <<c, s, a>> : c \in Commands, s \in TickerArgs, a \in AmountArgs }

\* str.split(","): the pieces between the commas, empty pieces included
RECURSIVE Split(_)
Split(s) ==
    IF \A i \in 1..Len(s) : s[i] # ","
    THEN << s >>
    ELSE LET i == CHOOSE k \in 1..Len(s) :
                    s[k] = "," /\ \A j \in 1..(k - 1) : s[j] # ","
         IN << SubSeq(s, 1, i - 1) >> \o Split(SubSeq(s, i + 1, Len(s)))

Range(s) == { s[i] : i \in 1..Len(s) }

----------------------------------------------------------------------------
Init ==
    /\ argv \in Argvs
    /\ pc = "main"
    /\ command = "none"
    /\ tickers = <<>>
    /\ investment = 0
    /\ data = {}
    /\ recent = {}
    /\ optimization = NoRecord
    /\ result = NoRecord
    /\ stdout = <<>>
    /\ exitCode = -1
    /\ traceback = "none"
    /\ fetchCount = 0
    /\ fetchFailed = 0
    /\ optimizerCalls = 0

\* print(json.dumps(obj)); sys.exit(code)
PrintAndExit(obj, code) ==
    /\ stdout' = Append(stdout, obj)
    /\ exitCode' = code
    /\ pc' = "exited"

\* an exception nothing catches: traceback on stderr, exit status 1
Uncaught(exc) ==
    /\ traceback' = exc
    /\ exitCode' = 1
    /\ pc' = "exited"
    /\ UNCHANGED stdout

\* if len(sys.argv) < 2
MainNoArguments ==
    /\ pc = "main"
    /\ Len(argv) < 1
    /\ PrintAndExit(NoTickersError, 1)
    /\ UNCHANGED <<argv, command, tickers, investment, data, recent, optimization, result,
                   traceback, fetchCount, fetchFailed, optimizerCalls>>

\* the final else branch
MainInvalidCommand ==
    /\ pc = "main"
    /\ Len(argv) >= 1
    /\ argv[1] \notin {"optimize", "predict"}
    /\ PrintAndExit(InvalidCommandError, 1)
    /\ UNCHANGED <<argv, command, tickers, investment, data, recent, optimization, result,
                   traceback, fetchCount, fetchFailed, optimizerCalls>>

\* command == "optimize": tickers = sys.argv[2].split(","); optimize_portfolio(tickers)
MainOptimize ==
    /\ pc = "main"
    /\ Len(argv) >= 1
    /\ argv[1] = "optimize"
    /\ IF Len(argv) < 2
       THEN /\ Uncaught("IndexError")
            /\ UNCHANGED <<command, tickers>>
       ELSE /\ command' = "optimize"
            /\ tickers' = Split(argv[2])
            /\ pc' = "fetch"
            /\ UNCHANGED <<stdout, exitCode, traceback>>
    /\ UNCHANGED <<argv, investment, data, recent, optimization, result,
                   fetchCount, fetchFailed, optimizerCalls>>

\* command == "predict": the tickers, then float(sys.argv[3]) or the default
MainPredict ==
    /\ pc = "main"
    /\ Len(argv) >= 1
    /\ argv[1] = "predict"
    /\ IF Len(argv) < 2
       THEN /\ Uncaught("IndexError")
            /\ UNCHANGED <<command, tickers, investment>>
       ELSE IF Len(argv) > 2 /\ ~argv[3].numeric
       THEN /\ Uncaught("ValueError")
            /\ UNCHANGED <<command, tickers, investment>>
       ELSE /\ command' = "predict"
            /\ tickers' = Split(argv[2])
            /\ investment' = IF Len(argv) > 2 THEN argv[3].mills ELSE DefaultInvestment
            /\ pc' = "fetch"
            /\ UNCHANGED <<stdout, exitCode, traceback>>
    /\ UNCHANGED <<argv, data, recent, optimization, result,
                   fetchCount, fetchFailed, optimizerCalls>>

----------------------------------------------------------------------------
(* fetch_portfolio_data *)

\* variant of PredictSeesError: the test looks for a key the error record does not have
PredictSeesErrorWrongKey(opt) == "errors" \in DOMAIN opt

\* "error" in optimization
PredictSeesError(opt) == IsError(opt)

\* the two call sites: optimize_portfolio's, and predict's own after a good optimization
AtFetch ==
    \/ pc = "fetch"
    \/ pc = "predict" /\ ~PredictSeesError(optimization)

AfterFetch == IF pc = "fetch" THEN "optimize" ELSE "analyse"

\* yf.download(...)['Adj Close'] returns: a table whose columns are requested, listed tickers
FetchReturns ==
    /\ AtFetch
    /\ \E cols \in SUBSET (Range(tickers) \cap Listed) :
          IF pc = "fetch"
          THEN data' = cols /\ recent' = recent
          ELSE recent' = cols /\ data' = data
    /\ fetchCount' = fetchCount + 1
    /\ pc' = AfterFetch
    /\ UNCHANGED <<argv, command, tickers, investment, optimization, result,
                   stdout, exitCode, traceback, fetchFailed, optimizerCalls>>

\* variant of FetchRaises: the error object is printed but the exit status is 0
FetchRaisesExitZero ==
    /\ AtFetch
    /\ fetchCount' = fetchCount + 1
    /\ fetchFailed' = fetchCount + 1
    /\ PrintAndExit(FetchError, 0)
    /\ UNCHANGED <<argv, command, tickers, investment, data, recent, optimization, result,
                   traceback, optimizerCalls>>

\* except Exception: print the error object, sys.exit(1)
FetchRaises ==
    /\ AtFetch
    /\ fetchCount' = fetchCount + 1
    /\ fetchFailed' = fetchCount + 1
    /\ PrintAndExit(FetchError, 1)
    /\ UNCHANGED <<argv, command, tickers, investment, data, recent, optimization, result,
                   traceback, optimizerCalls>>

----------------------------------------------------------------------------
(* optimize_portfolio, after its fetch *)

\* data.empty
DataEmpty(d) == d = {}

RECURSIVE SumOver(_, _)
SumOver(f, S) ==
    IF S = {} THEN 0
    ELSE LET x == CHOOSE y \in S : TRUE IN f[x] + SumOver(f, S \ {x})

\* ef.clean_weights(): one weight per column of the table, summing to 1
WeightMaps(cols) == { w \in [cols -> WeightVals] : SumOver(w, cols) = 100 }

\* where optimize_portfolio returns to
ReturnFromOptimize(r) ==
    /\ optimization' = r
    /\ IF command = "optimize"
       THEN result' = r /\ pc' = "print"
       ELSE result' = result /\ pc' = "predict"

\* if data.empty: return {"error": ...}
OptimizeNoData ==
    /\ pc = "optimize"
    /\ DataEmpty(data)
    /\ ReturnFromOptimize(NoDataError)
    /\ UNCHANGED <<argv, command, tickers, investment, data, recent, stdout, exitCode,
                   traceback, fetchCount, fetchFailed, optimizerCalls>>

\* mean_historical_return, sample_cov, max_sharpe, clean_weights, portfolio_performance
OptimizeMaxSharpe ==
    /\ pc = "optimize"
    /\ ~DataEmpty(data)
    /\ optimizerCalls' = optimizerCalls + 1
    /\ \E w \in WeightMaps(data), r \in Returns, v \in Volatilities, s \in Sharpes :
          ReturnFromOptimize([ optimal_weights |-> w,
                               expected_annual_return |-> r,
                               annual_volatility |-> v,
                               sharpe_ratio |-> s,
                               tickers |-> tickers ])
    /\ UNCHANGED <<argv, command, tickers, investment, data, recent, stdout, exitCode,
                   traceback, fetchCount, fetchFailed>>

\* max_sharpe raises (no asset beats the risk-free rate, solver failure): nothing catches it
OptimizeRaises ==
    /\ pc = "optimize"
    /\ ~DataEmpty(data)
    /\ optimizerCalls' = optimizerCalls + 1
    /\ Uncaught("OptimizationError")
    /\ UNCHANGED <<argv, command, tickers, investment, data, recent, optimization, result,
                   fetchCount, fetchFailed>>

----------------------------------------------------------------------------
(* predict_portfolio_performance *)

\* if "error" in optimization: return optimization
PredictReturnsError ==
    /\ pc = "predict"
    /\ PredictSeesError(optimization)
    /\ result' = optimization
    /\ pc' = "print"
    /\ UNCHANGED <<argv, command, tickers, investment, data, recent, optimization, stdout,
                   exitCode, traceback, fetchCount, fetchFailed, optimizerCalls>>

\* round(x, n) of Python 3 on the exact value num/den: to the nearest, ties to even
Round(num, den) ==
    LET q == num \div den
        r == num % den
    IN IF 2 * r < den THEN q
       ELSE IF 2 * r > den THEN q + 1
       ELSE IF q % 2 = 0 THEN q ELSE q + 1

\* optimization["optimal_weights"].get(ticker, 0)
WeightOf(weights, ticker) ==
    IF ticker \in DOMAIN weights THEN weights[ticker] ELSE 0

\* round(investment_amount * weight, 2), in cents
Allocation(inv, weight) == Round(inv * weight, 1000)

\* stock_analysis[ticker] = {...}: a dict keeps a key where it was first inserted
DictSet(d, entry) ==
    IF \E i \in 1..Len(d) : d[i].ticker = entry.ticker
    THEN [ i \in 1..Len(d) |-> IF d[i].ticker = entry.ticker THEN entry ELSE d[i] ]
    ELSE Append(d, entry)

\* for ticker in tickers: if ticker in data.columns: stock_analysis[ticker] = {...}
\* (current_price, avg_return and volatility of an entry are figures of the price
\*  rows, which the model does not hold)
RECURSIVE AnalyseFrom(_, _, _, _, _, _)
AnalyseFrom(i, acc, tks, cols, weights, inv) ==
    IF i > Len(tks) THEN acc
    ELSE IF tks[i] \in cols
    THEN AnalyseFrom(i + 1,
                     DictSet(acc, [ ticker |-> tks[i],
                                    optimal_weight |-> WeightOf(weights, tks[i]),
                                    recommended_allocation |->
                                        Allocation(inv, WeightOf(weights, tks[i])) ]),
                     tks, cols, weights, inv)
    ELSE AnalyseFrom(i + 1, acc, tks, cols, weights, inv)

\* variant of StockAnalysis: the test "ticker in data.columns" is left out
StockAnalysisAllTickers(tks, cols, weights, inv) ==
    AnalyseFrom(1, <<>>, tks, Range(tks), weights, inv)

StockAnalysis(tks, cols, weights, inv) == AnalyseFrom(1, <<>>, tks, cols, weights, inv)

RECURSIVE GCD(_, _)
GCD(a, b) == IF b = 0 THEN a ELSE GCD(b, a % b)

\* 1 + expected_return / 100 as a fraction in lowest terms
Growth(ret) ==
    LET g == GCD(10000 + ret, 10000)
    IN [ num |-> (10000 + ret) \div g, den |-> 10000 \div g ]

\* (v.i + v.f / v.d) * a / b, exactly, again as integer part and proper fraction
MulFrac(v, a, b) ==
    LET p  == v.i * a
        n  == (p % b) * v.d + v.f * a
        d2 == v.d * b
    IN [ i |-> (p \div b) + (n \div d2), f |-> n % d2, d |-> d2 ]

RECURSIVE Compound(_, _, _, _)
Compound(v, a, b, years) ==
    IF years = 0 THEN v ELSE Compound(MulFrac(v, a, b), a, b, years - 1)

\* investment_amount * ((1 + expected_return / 100) ** years), exact, in thousandths
ExactValue(inv, ret, years) ==
    Compound([ i |-> inv, f |-> 0, d |-> 1 ], Growth(ret).num, Growth(ret).den, years)

\* variant of Projected: simple interest, investment * (1 + years * return / 100)
ProjectedSimpleInterest(inv, ret, years) ==
    LET v == ExactValue(inv, ret * years, 1)
    IN Round((v.i % 10) * v.d + v.f, 10 * v.d) + (v.i \div 10)

\* round(investment_amount * ((1 + expected_return / 100) ** years), 2), in cents
Projected(inv, ret, years) ==
    LET v == ExactValue(inv, ret, years)
    IN Round((v.i % 10) * v.d + v.f, 10 * v.d) + (v.i \div 10)

\* round(projected - investment_amount, 2), in cents
Gain(projected, inv) == Round(projected * 10 - inv, 10)

InvestmentProjections(inv, ret) ==
    [ initial_investment |-> inv,
      projected_1year |-> Projected(inv, ret, 1),
      projected_3year |-> Projected(inv, ret, 3),
      projected_5year |-> Projected(inv, ret, 5),
      gain_1year |-> Gain(Projected(inv, ret, 1), inv),
      gain_3year |-> Gain(Projected(inv, ret, 3), inv),
      gain_5year |-> Gain(Projected(inv, ret, 5), inv) ]

\* variant of RiskLevel: the upper threshold is inclusive
RiskLevelInclusive(volatility) ==
    IF volatility >= 2500 THEN "High"
    ELSE IF volatility > 1500 THEN "Medium"
    ELSE "Low"

\* "High" if volatility > 25 else "Medium" if volatility > 15 else "Low"
RiskLevel(volatility) ==
    IF volatility > 2500 THEN "High"
    ELSE IF volatility > 1500 THEN "Medium"
    ELSE "Low"

\* variant of DiversificationScore: counts the requested tickers, divides by the weights
DiversificationScoreOverTickers(weights, tks) ==
    Round(Cardinality({ i \in 1..Len(tks) : WeightOf(weights, tks[i]) > 5 }) * 10000,
          Cardinality(DOMAIN weights))

\* round(len([w for w in weights.values() if w > 0.05]) / len(tickers) * 100, 2)
DiversificationScore(weights, tks) ==
    Round(Cardinality({ t \in DOMAIN weights : weights[t] > 5 }) * 10000, Len(tks))

----------------------------------------------------------------------------
(* generate_recommendations *)

Rec(kind) == [ kind |-> kind ]

SharpeRecommendation(sharpe) ==
    IF sharpe > 150 THEN << Rec("sharpe_excellent") >>
    ELSE IF sharpe > 100 THEN << Rec("sharpe_good") >>
    ELSE << Rec("sharpe_diversify") >>

VolatilityRecommendation(volatility) ==
    IF volatility > 2500 THEN << Rec("volatility_high") >>
    ELSE IF volatility < 1500 THEN << Rec("volatility_low") >>
    ELSE << >>

\* max(weights.values())
MaxWeight(weights) ==
    CHOOSE m \in { weights[t] : t \in DOMAIN weights } :
        \A t \in DOMAIN weights : weights[t] <= m

ConcentrationRecommendation(weights) ==
    IF MaxWeight(weights) > 40
    THEN << [ kind |-> "concentrated", weight |-> MaxWeight(weights) ] >>
    ELSE << >>

\* variant of TickerRecommendation: the low-allocation threshold is inclusive
TickerRecommendationInclusive(analysis) ==
    IF analysis.optimal_weight > 30
    THEN << [ kind |-> "high_allocation", ticker |-> analysis.ticker,
              weight |-> analysis.optimal_weight ] >>
    ELSE IF analysis.optimal_weight <= 5
    THEN << [ kind |-> "low_allocation", ticker |-> analysis.ticker,
              weight |-> analysis.optimal_weight ] >>
    ELSE << >>

TickerRecommendation(analysis) ==
    IF analysis.optimal_weight > 30
    THEN << [ kind |-> "high_allocation", ticker |-> analysis.ticker,
              weight |-> analysis.optimal_weight ] >>
    ELSE IF analysis.optimal_weight < 5
    THEN << [ kind |-> "low_allocation", ticker |-> analysis.ticker,
              weight |-> analysis.optimal_weight ] >>
    ELSE << >>

\* for ticker, analysis in stock_analysis.items()
RECURSIVE TickerRecommendations(_)
TickerRecommendations(analysis) ==
    IF analysis = << >> THEN << >>
    ELSE TickerRecommendation(Head(analysis)) \o TickerRecommendations(Tail(analysis))

GenerateRecommendations(opt, analysis) ==
    SharpeRecommendation(opt.sharpe_ratio)
    \o VolatilityRecommendation(opt.annual_volatility)
    \o ConcentrationRecommendation(opt.optimal_weights)
    \o TickerRecommendations(analysis)

----------------------------------------------------------------------------
\* the rest of predict_portfolio_performance, after its own fetch
PredictBuild ==
    /\ pc = "analyse"
    /\ LET analysis == StockAnalysis(tickers, recent, optimization.optimal_weights, investment)
       IN result' =
            [ portfolio_optimization |-> optimization,
              stock_analysis |-> analysis,
              investment_projections |->
                  InvestmentProjections(investment, optimization.expected_annual_return),
              risk_assessment |->
                  [ risk_level |-> RiskLevel(optimization.annual_volatility),
                    diversification_score |->
                        DiversificationScore(optimization.optimal_weights, tickers) ],
              recommendations |-> GenerateRecommendations(optimization, analysis) ]
    /\ pc' = "print"
    /\ UNCHANGED <<argv, command, tickers, investment, data, recent, optimization, stdout,
                   exitCode, traceback, fetchCount, fetchFailed, optimizerCalls>>

\* print(json.dumps(result)), then the script ends: exit status 0
MainPrint ==
    /\ pc = "print"
    /\ PrintAndExit(result, 0)
    /\ UNCHANGED <<argv, command, tickers, investment, data, recent, optimization, result,
                   traceback, fetchCount, fetchFailed, optimizerCalls>>

Next ==
    \/ MainNoArguments
    \/ MainInvalidCommand
    \/ MainOptimize
    \/ MainPredict
    \/ FetchReturns
    \/ FetchRaises
    \/ OptimizeNoData
    \/ OptimizeMaxSharpe
    \/ OptimizeRaises
    \/ PredictReturnsError
    \/ PredictBuild
    \/ MainPrint

Spec == Init /\ [][Next]_vars

----------------------------------------------------------------------------
(* generate_recommendations called on its own, on portfolios of up to three assets *)

\* the assets of these portfolios
Assets == {<<"A">>, <<"B">>, <<"C">>}

\* the orders in which a stock_analysis may hold some of the assets
AnalysedOrders ==
    { s \in UNION { [1..n -> Assets] : n \in 0..Cardinality(Assets) } :
        \A i, j \in 1..Len(s) : i # j => s[i] # s[j] }

InitRecommend ==
    /\ argv = <<>>
    /\ pc = "recommend"
    /\ command = "none"
    /\ tickers = <<>>
    /\ investment = DefaultInvestment
    /\ data = {}
    /\ recent = {}
    /\ \E cols \in (SUBSET Assets) \ {{}} :
         \E w \in WeightMaps(cols), v \in Volatilities, s \in Sharpes, tks \in AnalysedOrders :
            /\ optimization = [ optimal_weights |-> w,
                                expected_annual_return |-> 0,
                                annual_volatility |-> v,
                                sharpe_ratio |-> s,
                                tickers |-> tks ]
            /\ result = [ stock_analysis |-> StockAnalysis(tks, Range(tks), w, investment) ]
    /\ stdout = <<>>
    /\ exitCode = -1
    /\ traceback = "none"
    /\ fetchCount = 0
    /\ fetchFailed = 0
    /\ optimizerCalls = 0

\* recommendations = generate_recommendations(optimization, stock_analysis)
Recommend ==
    /\ pc = "recommend"
    /\ result' = [ stock_analysis |-> result.stock_analysis,
                   recommendations |->
                       GenerateRecommendations(optimization, result.stock_analysis) ]
    /\ pc' = "returned"
    /\ UNCHANGED <<argv, command, tickers, investment, data, recent, optimization, stdout,
                   exitCode, traceback, fetchCount, fetchFailed, optimizerCalls>>

NextRecommend == Recommend

SpecRecommend == InitRecommend /\ [][NextRecommend]_vars

----------------------------------------------------------------------------
(* Properties *)

Exited == pc = "exited"

\* the run ended in an error: an uncaught exception, or a printed object with an error field
RunEndedInError ==
    \/ traceback # "none"
    \/ \E i \in 1..Len(stdout) : IsError(stdout[i])

\* C1: the exit code of every run is 1 if the run ended in an error (usage error,
\* fetch failure, printed error record) and 0 otherwise; no run that prints an
\* object with an error field exits with code 0.
C1_ExitCodeOneIffError ==
    Exited => exitCode = (IF RunEndedInError THEN 1 ELSE 0)

\* missing or invalid command-line arguments
BadArguments ==
    \/ Len(argv) = 0
    \/ argv[1] \notin {"optimize", "predict"}
    \/ Len(argv) < 2
    \/ argv[1] = "predict" /\ Len(argv) > 2 /\ ~argv[3].numeric

\* C2: every run with missing or invalid arguments prints exactly one JSON object
\* with an error field and terminates; none ends by an uncaught exception.
C2_UsageErrorPrintsJsonError ==
    (Exited /\ BadArguments) =>
        /\ Len(stdout) = 1
        /\ IsError(stdout[1])
        /\ traceback = "none"

\* C3: once a fetch has raised (the fetch of optimize, the first or the second fetch
\* of predict), the run has printed one error object and nothing else, has exited
\* with a non-zero code, and from then on fetches nothing, never calls the
\* optimizer and prints nothing more.
C3_FetchFailureTerminates ==
    /\ [](fetchFailed # 0 =>
            /\ Exited
            /\ exitCode = 1
            /\ stdout = << FetchError >>
            /\ fetchCount = fetchFailed)
    /\ [][fetchFailed # 0 =>
            /\ fetchCount' = fetchCount
            /\ optimizerCalls' = optimizerCalls
            /\ stdout' = stdout]_vars

\* the second fetch of a predict run raised, after a successful optimization
C3_Witness ==
    /\ Exited
    /\ command = "predict"
    /\ fetchFailed = 2
    /\ optimizerCalls = 1
    /\ ~IsError(optimization)

\* the fetch of optimize_portfolio returned, and the table is empty
FirstTableEmpty ==
    /\ fetchCount >= 1
    /\ fetchFailed # 1
    /\ DataEmpty(data)

\* C4: when the fetched price table is empty (empty or all-invalid ticker list),
\* optimize_portfolio returns the error record without calling the optimizer, and
\* predict returns that same record: no second fetch, no stock_analysis, projections
\* or recommendations, and no exception.
C4_EmptyTableGivesErrorRecord ==
    FirstTableEmpty =>
        /\ pc \in {"optimize", "predict", "print", "exited"}
        /\ fetchCount = 1
        /\ optimizerCalls = 0
        /\ traceback = "none"
        /\ pc # "optimize" => optimization = NoDataError
        /\ pc \in {"print", "exited"} => result = NoDataError
        /\ Exited => stdout = << NoDataError >>

\* a predict run on a list of invalid tickers only has printed the error record
C4_Witness ==
    /\ FirstTableEmpty
    /\ command = "predict"
    /\ Range(tickers) \cap Listed = {}
    /\ Exited
    /\ result = optimization
    /\ stdout = << NoDataError >>

\* predict_portfolio_performance built its full result
HasPrediction == "risk_assessment" \in DOMAIN result

\* C5: in every successful predict result the diversification score lies in
\* [0, 100] (in hundredths: 0..10000), also with duplicate tickers and with
\* tickers missing from the fetched data.
C5_DiversificationScoreInRange ==
    HasPrediction =>
        /\ result.risk_assessment.diversification_score >= 0
        /\ result.risk_assessment.diversification_score <= 10000

\* a ticker is requested twice and only half of the requested entries carry weight
C5_Witness ==
    /\ HasPrediction
    /\ Len(tickers) > Cardinality(Range(tickers))
    /\ result.risk_assessment.diversification_score = 5000

RiskRank(level) ==
    IF level = "Low" THEN 0 ELSE IF level = "Medium" THEN 1 ELSE 2

\* C6: the risk level is High exactly when volatility > 25, Medium exactly when
\* 15 < volatility <= 25, Low exactly when volatility <= 15, and it never
\* decreases when the volatility grows.
C6_RiskLevelMonotonic ==
    /\ \A v1, v2 \in Volatilities :
          v1 <= v2 => RiskRank(RiskLevel(v1)) <= RiskRank(RiskLevel(v2))
    /\ HasPrediction =>
          LET v == result.portfolio_optimization.annual_volatility
              level == result.risk_assessment.risk_level
          IN /\ level \in {"Low", "Medium", "High"}
             /\ level = "High" <=> v > 2500
             /\ level = "Medium" <=> (v > 1500 /\ v <= 2500)
             /\ level = "Low" <=> v <= 1500

\* a result whose volatility is exactly 25
C6_Witness ==
    /\ HasPrediction
    /\ result.portfolio_optimization.annual_volatility = 2500
    /\ result.risk_assessment.risk_level = "Medium"

\* cents is exactly the value v (in thousandths)
IsExactly(cents, v) == v.f = 0 /\ v.i = 10 * cents

\* cents is within half a cent of the value v (in thousandths)
IsNearest(cents, v) ==
    /\ v.i >= 10 * cents - 5
    /\ v.i < 10 * cents + 5 \/ (v.i = 10 * cents + 5 /\ v.f = 0)

\* C7 as stated: the projections equal investment * (1 + return/100)^k exactly,
\* for k = 1, 3, 5, and each gain equals its projection minus the investment.
C7_ProjectionsExact ==
    HasPrediction =>
        LET p == result.investment_projections
            ret == result.portfolio_optimization.expected_annual_return
        IN /\ IsExactly(p.projected_1year, ExactValue(p.initial_investment, ret, 1))
           /\ IsExactly(p.projected_3year, ExactValue(p.initial_investment, ret, 3))
           /\ IsExactly(p.projected_5year, ExactValue(p.initial_investment, ret, 5))
           /\ 10 * p.gain_1year = 10 * p.projected_1year - p.initial_investment
           /\ 10 * p.gain_3year = 10 * p.projected_3year - p.initial_investment
           /\ 10 * p.gain_5year = 10 * p.projected_5year - p.initial_investment

Distance(x, y) == IF x >= y THEN x - y ELSE y - x

\* C7 as amended: each projection is investment * (1 + return/100)^k rounded to
\* two decimals (within half a cent of it), and each gain is its projection minus
\* the investment, rounded to two decimals.
C7_ProjectionsRounded ==
    HasPrediction =>
        LET p == result.investment_projections
            ret == result.portfolio_optimization.expected_annual_return
        IN /\ p.initial_investment = investment
           /\ IsNearest(p.projected_1year, ExactValue(investment, ret, 1))
           /\ IsNearest(p.projected_3year, ExactValue(investment, ret, 3))
           /\ IsNearest(p.projected_5year, ExactValue(investment, ret, 5))
           /\ Distance(10 * p.gain_1year, 10 * p.projected_1year - investment) <= 5
           /\ Distance(10 * p.gain_3year, 10 * p.projected_3year - investment) <= 5
           /\ Distance(10 * p.gain_5year, 10 * p.projected_5year - investment) <= 5

\* 10000 at 12.5 %: 14238.28125 after three years is reported as 14238.28
C7_Witness ==
    /\ HasPrediction
    /\ investment = DefaultInvestment
    /\ result.portfolio_optimization.expected_annual_return = 1250
    /\ result.investment_projections.projected_3year = 1423828
    /\ result.investment_projections.gain_3year = 423828

HasRecommendations == "recommendations" \in DOMAIN result

Count(recs, kinds) == Cardinality({ i \in 1..Len(recs) : recs[i].kind \in kinds })

\* C9: the list returned by generate_recommendations is, in this order: one Sharpe
\* recommendation (excellent above 1.5, good above 1.0, else diversify), at most
\* one volatility recommendation (high above 25, low below 15, none between), a
\* concentration recommendation exactly when the largest weight exceeds 0.4, then
\* per analysed ticker, in the order of stock_analysis, at most one recommendation
\* (high allocation above 0.3, low allocation below 0.05); its length is between
\* 1 and 3 + the number of analysed tickers.
C9_RecommendationList ==
    HasRecommendations =>
        LET recs == result.recommendations
            sa == result.stock_analysis
            sharpe == optimization.sharpe_ratio
            vol == optimization.annual_volatility
            w == optimization.optimal_weights
            hasVol == vol > 2500 \/ vol < 1500
            hasConc == \E t \in DOMAIN w : w[t] > 40
            head == 1 + (IF hasVol THEN 1 ELSE 0) + (IF hasConc THEN 1 ELSE 0)
            Pos(t) == CHOOSE j \in 1..Len(sa) : sa[j].ticker = t
        IN /\ Len(recs) >= 1
           /\ Len(recs) <= 3 + Len(sa)
           /\ Len(recs) >= head
           /\ recs[1].kind = (IF sharpe > 150 THEN "sharpe_excellent"
                              ELSE IF sharpe > 100 THEN "sharpe_good"
                              ELSE "sharpe_diversify")
           /\ Count(recs, {"sharpe_excellent", "sharpe_good", "sharpe_diversify"}) = 1
           /\ Count(recs, {"volatility_high", "volatility_low"}) = (IF hasVol THEN 1 ELSE 0)
           /\ hasVol => recs[2].kind = (IF vol > 2500 THEN "volatility_high"
                                        ELSE "volatility_low")
           /\ Count(recs, {"concentrated"}) = (IF hasConc THEN 1 ELSE 0)
           /\ hasConc => recs[head].kind = "concentrated"
           /\ \A i \in (head + 1)..Len(recs) :
                 /\ recs[i].kind \in {"high_allocation", "low_allocation"}
                 /\ \E j \in 1..Len(sa) : sa[j].ticker = recs[i].ticker
           /\ \A i, k \in (head + 1)..Len(recs) :
                 i < k => Pos(recs[i].ticker) < Pos(recs[k].ticker)
           /\ \A j \in 1..Len(sa) :
                 LET hits == { i \in (head + 1)..Len(recs) : recs[i].ticker = sa[j].ticker }
                 IN /\ Cardinality(hits) <= 1
                    /\ sa[j].optimal_weight > 30 =>
                          \E i \in hits : recs[i].kind = "high_allocation"
                    /\ sa[j].optimal_weight < 5 =>
                          \E i \in hits : recs[i].kind = "low_allocation"
                    /\ (sa[j].optimal_weight >= 5 /\ sa[j].optimal_weight <= 30) =>
                          hits = {}

\* the longest list: all three portfolio recommendations and one per analysed ticker
C9_Witness ==
    /\ pc = "returned"
    /\ HasRecommendations
    /\ Len(result.stock_analysis) = 3
    /\ Len(result.recommendations) = 3 + Len(result.stock_analysis)

\* C10: in every successful predict result the "High volatility" recommendation is
\* present exactly when the risk level is High, and the "Low volatility"
\* recommendation exactly when the risk level is Low.
C10_RiskLevelAgreesWithRecommendation ==
    HasPrediction =>
        LET kinds == { result.recommendations[i].kind :
                          i \in 1..Len(result.recommendations) }
            level == result.risk_assessment.risk_level
        IN /\ "volatility_high" \in kinds <=> level = "High"
           /\ "volatility_low" \in kinds <=> level = "Low"

====
